---- MODULE Spec2Model ----
(***************************************************************************)
(* Price-history store, comparator, tracker and flight search of           *)
(* FlightAgent.                                                            *)
(*                                                                         *)
(*   src/api/database.py                 TravelTrackerDB                   *)
(*   src/api/utils/price_tracker.py      should_send_alert                 *)
(*   src/api/phase3_tracker.py           PriceTracker                      *)
(*   src/api/services/open_jaw_search.py OpenJawSearch                     *)
(*   src/api/services/amadeus_client.py  AmadeusClient.search_flights      *)
(*   src/api/utils/validators.py         validate_*                        *)
(*   src/api/phase4_automated.py         run_daily_tracking                *)
(*   src/api/email_notifier.py           EmailNotifier                     *)
(*                                                                         *)
(* Prices are integers (currency units); dates handed to the store as      *)
(* trip keys are strings. The wall clock is a pair [date, sec]: the local  *)
(* calendar day as a day number and the time in whole seconds, so that the *)
(* text comparison SQLite makes on "YYYY-MM-DD" and "YYYY-MM-DD HH:MM:SS"  *)
(* is the order on these numbers. The date changes only when a second      *)
(* passes.                                                                 *)
(* Python's None is the empty sequence, a present value v is <<v>>.        *)
(***************************************************************************)
EXTENDS Integers, Sequences, FiniteSets, TLC

VARIABLES
    flight_prices,      \* table flight_prices, in rowid order (id = index)
    daily_best_prices,  \* table daily_best_prices, a set of rows
    daily_seq,          \* AUTOINCREMENT counter of daily_best_prices
    clock,              \* wall clock: [date, sec]
    saved,              \* history: successful save_flight_price calls per pair
    call,               \* the operation that returned last, with its arguments
    result,             \* what that operation returned
    sweep,              \* PriceTracker.track_all_dates: where the loop stands
    outbox,             \* the alert e-mails the SMTP server accepted
    requests,           \* requests a search_flights call issued to the provider
    procs,              \* the compare_and_update_best_price call each process is in
    iteration,          \* the track_flight_prices call of a run, step by step
    log                 \* what a run did to the provider, the store and the notifier

vars == <<flight_prices, daily_best_prices, daily_seq, clock, saved, call, result,
          sweep, outbox, requests, procs, iteration, log>>

----------------------------------------------------------------------------
(* Bounds of the model *)

MaxRows == 3
MaxTime == 1
MaxStoreRows == 2

(* The inputs the operations are called with *)

None == <<>>
Some(v) == <<v>>

Prices == {505, 520}

Pairs == { [departure_date |-> "2026-04-03", return_date |-> "2026-04-09"],
           [departure_date |-> "2026-04-04", return_date |-> "2026-04-09"] }

Routes == { [inbound_airport |-> "NRT", outbound_airport |-> "KIX"],
            [inbound_airport |-> "KIX", outbound_airport |-> "NRT"] }

ClockAdvances == {"none", "second", "midnight"}

\* track_all_dates: the date pairs of the search window, in loop order
\* (two departure dates, the return trip_duration_days = 6 days later)
Window == << [departure_date |-> "2026-04-03", return_date |-> "2026-04-09"],
             [departure_date |-> "2026-04-04", return_date |-> "2026-04-10"] >>

\* every pair the store is asked about
TrackedPairs == Pairs \cup { Window[i] : i \in DOMAIN Window }

\* track_all_dates has not been called
Idle == [status |-> "idle", current |-> 1, results |-> <<>>, alerts |-> <<>>,
         search |-> None, delivery |-> None, email_notifier |-> FALSE,
         summary |-> None]

\* the tracker processes that share one store
Procs == {1, 2}

\* a process that has not called compare_and_update_best_price yet
NotCalling == [pc |-> "idle", departure_date |-> "", return_date |-> "",
               current_price |-> 0, checked_date |-> 0,
               last_price_record |-> None, today_best |-> None, record_id |-> 0]

\* a run that is not inside track_flight_prices
NotTracking == [pc |-> "idle", search |-> None, comparison |-> None,
                should_alert |-> None]

----------------------------------------------------------------------------
(* The wall clock: datetime.now() and SQLite's CURRENT_TIMESTAMP *)

CanAdvance(clk, adv) == adv = "none" \/ clk.sec < MaxTime

Advance(clk, adv) ==
    CASE adv = "none" -> clk
      [] adv = "second" -> [clk EXCEPT !.sec = clk.sec + 1]
      [] adv = "midnight" -> [date |-> clk.date + 1, sec |-> clk.sec + 1]

----------------------------------------------------------------------------
(* TravelTrackerDB *)

\* ORDER BY checked_date DESC, created_at DESC: r1 does not sort after r2
SortsNotAfter(r1, r2) ==
    \/ r1.checked_date > r2.checked_date
    \/ /\ r1.checked_date = r2.checked_date
       /\ r1.created_at >= r2.created_at

\* faulty variant: the departure date is not compared
RowsOf_ReturnDateOnly(fp, departure_date, return_date) ==
    { i \in 1..Len(fp) : fp[i].return_date = return_date }

\* the ids of the rows of one (departure_date, return_date) pair
RowsOf(fp, departure_date, return_date) ==
    { i \in 1..Len(fp) : /\ fp[i].departure_date = departure_date
                         /\ fp[i].return_date = return_date }

\* get_last_checked_price: the rows fetchone() may return. SQL leaves the
\* order of rows with equal sort keys unspecified, so every row that no
\* other row of the pair sorts strictly before is a possible first row.
GetLastCheckedPrice(fp, departure_date, return_date) ==
    LET rows == RowsOf(fp, departure_date, return_date)
    IN IF rows = {} THEN {None}
       ELSE { Some([id |-> i] @@ fp[i]) :
                i \in { j \in rows : \A m \in rows : SortsNotAfter(fp[j], fp[m]) } }

\* get_daily_best_price: the rows fetchone() may return
GetDailyBestPrice(db, date) ==
    LET rows == { r \in db : r.date = date }
    IN IF rows = {} THEN {None} ELSE { Some(r) : r \in rows }

\* faulty variant: INSERT OR REPLACE keyed by the pair, as hotel_prices is
SaveFlightPrice_Replace(fp, departure_date, return_date, route, total_price, clk) ==
    Append(SelectSeq(fp, LAMBDA r : ~ (/\ r.departure_date = departure_date
                                       /\ r.return_date = return_date)),
           [departure_date |-> departure_date,
            return_date |-> return_date,
            inbound_airport |-> route.inbound_airport,
            outbound_airport |-> route.outbound_airport,
            total_price |-> total_price,
            checked_date |-> clk.date,
            created_at |-> clk.sec])

\* faulty variant: the pair is UNIQUE, a second INSERT for it is refused
SaveFlightPrice_UniquePair(fp, departure_date, return_date, route, total_price, clk) ==
    IF \E i \in 1..Len(fp) : /\ fp[i].departure_date = departure_date
                             /\ fp[i].return_date = return_date
    THEN fp
    ELSE Append(fp, [departure_date |-> departure_date,
                     return_date |-> return_date,
                     inbound_airport |-> route.inbound_airport,
                     outbound_airport |-> route.outbound_airport,
                     total_price |-> total_price,
                     checked_date |-> clk.date,
                     created_at |-> clk.sec])

\* save_flight_price: the table after the INSERT; lastrowid is its length
SaveFlightPrice(fp, departure_date, return_date, route, total_price, clk) ==
    Append(fp, [departure_date |-> departure_date,
                return_date |-> return_date,
                inbound_airport |-> route.inbound_airport,
                outbound_airport |-> route.outbound_airport,
                total_price |-> total_price,
                checked_date |-> clk.date,
                created_at |-> clk.sec])

\* faulty variant: a plain INSERT on a column that is not UNIQUE
UpdateDailyBestPrice_NoReplace(db, seq, date, best_price, departure_date, return_date, route, flight_record_id) ==
    db \cup
    { [id |-> seq + 1,
       date |-> date,
       best_price |-> best_price,
       departure_date |-> departure_date,
       return_date |-> return_date,
       inbound_airport |-> route.inbound_airport,
       outbound_airport |-> route.outbound_airport,
       flight_record_id |-> flight_record_id] }

\* faulty variant: an existing row gets the new price only
UpdateDailyBestPrice_PriceOnly(db, seq, date, best_price, departure_date, return_date, route, flight_record_id) ==
    IF \E r \in db : r.date = date
    THEN { IF r.date = date THEN [r EXCEPT !.best_price = best_price] ELSE r :
             r \in db }
    ELSE db \cup
         { [id |-> seq + 1,
            date |-> date,
            best_price |-> best_price,
            departure_date |-> departure_date,
            return_date |-> return_date,
            inbound_airport |-> route.inbound_airport,
            outbound_airport |-> route.outbound_airport,
            flight_record_id |-> flight_record_id] }

\* faulty variant: the replacing row keeps the flight_record_id of the old
UpdateDailyBestPrice_KeepsRecord(db, seq, date, best_price, departure_date, return_date, route, flight_record_id) ==
    { r \in db : r.date # date } \cup
    { [id |-> seq + 1,
       date |-> date,
       best_price |-> best_price,
       departure_date |-> departure_date,
       return_date |-> return_date,
       inbound_airport |-> route.inbound_airport,
       outbound_airport |-> route.outbound_airport,
       flight_record_id |-> old] :
        old \in IF \E r \in db : r.date = date
                THEN { r.flight_record_id : r \in { q \in db : q.date = date } }
                ELSE {flight_record_id} }


\* update_daily_best_price: INSERT OR REPLACE on the UNIQUE column date
UpdateDailyBestPrice(db, seq, date, best_price, departure_date, return_date, route, flight_record_id) ==
    { r \in db : r.date # date } \cup
    { [id |-> seq + 1,
       date |-> date,
       best_price |-> best_price,
       departure_date |-> departure_date,
       return_date |-> return_date,
       inbound_airport |-> route.inbound_airport,
       outbound_airport |-> route.outbound_airport,
       flight_record_id |-> flight_record_id] }

\* faulty variant: a price equal to the stored best replaces it
IsNewBest_OnTie(today_best, current_price) ==
    today_best = None \/ current_price <= today_best[1].best_price

\* faulty variant: the comparison is reversed
IsNewBest_Reversed(today_best, current_price) ==
    today_best = None \/ current_price > today_best[1].best_price

\* compare_and_update_best_price, line 313
IsNewBest(today_best, current_price) ==
    today_best = None \/ current_price < today_best[1].best_price

\* faulty variant: the difference is taken the other way round
PriceDrop_Reversed(last_price_record, current_price) ==
    IF last_price_record # None
    THEN Some(current_price - last_price_record[1].total_price)
    ELSE None

\* compare_and_update_best_price, lines 328-330
PriceDrop(last_price_record, current_price) ==
    IF last_price_record # None
    THEN Some(last_price_record[1].total_price - current_price)
    ELSE None

\* faulty variant: today_best_price is the best price after the call
ComparisonResult_BestAfter(current_price, last_price_record, today_best, is_new_best, record_id) ==
    [current_price |-> current_price,
     last_checked_price |-> IF last_price_record # None
                            THEN Some(last_price_record[1].total_price)
                            ELSE None,
     price_drop |-> PriceDrop(last_price_record, current_price),
     is_new_best_today |-> is_new_best,
     today_best_price |-> IF is_new_best
                          THEN current_price
                          ELSE today_best[1].best_price,
     record_id |-> record_id]

\* compare_and_update_best_price, lines 332-340
ComparisonResult(current_price, last_price_record, today_best, is_new_best, record_id) ==
    [current_price |-> current_price,
     last_checked_price |-> IF last_price_record # None
                            THEN Some(last_price_record[1].total_price)
                            ELSE None,
     price_drop |-> PriceDrop(last_price_record, current_price),
     is_new_best_today |-> is_new_best,
     today_best_price |-> IF today_best # None
                          THEN today_best[1].best_price
                          ELSE current_price,
     record_id |-> record_id]

----------------------------------------------------------------------------
(* price_tracker.should_send_alert. The threshold is read from the         *)
(* preferences on every call; it is a parameter here.                      *)

DefaultThreshold == 10

\* faulty variant: a drop of exactly the threshold alerts
ShouldSendAlert_AtLeast(current_price, last_checked_price, threshold) ==
    IF last_checked_price = None
    THEN FALSE
    ELSE last_checked_price[1] - current_price >= threshold

ShouldSendAlert(current_price, last_checked_price, threshold) ==
    IF last_checked_price = None
    THEN FALSE
    ELSE LET price_drop == last_checked_price[1] - current_price
         IN price_drop > threshold

----------------------------------------------------------------------------
Init ==
    /\ flight_prices = <<>>
    /\ daily_best_prices = {}
    /\ daily_seq = 0
    /\ clock = [date |-> 0, sec |-> 0]
    /\ saved = [k \in TrackedPairs |-> 0]
    /\ call = [op |-> "init"]
    /\ result = None
    /\ sweep = Idle
    /\ outbox = <<>>
    /\ requests = 0
    /\ procs = [p \in Procs |-> NotCalling]
    /\ iteration = NotTracking
    /\ log = <<>>

\* time passes between two operations
TickSecond ==
    /\ CanAdvance(clock, "second")
    /\ clock' = Advance(clock, "second")
    /\ UNCHANGED <<flight_prices, daily_best_prices, daily_seq, saved, call, result>>
    /\ UNCHANGED <<sweep, outbox, requests, procs, iteration, log>>

TickMidnight ==
    /\ CanAdvance(clock, "midnight")
    /\ clock' = Advance(clock, "midnight")
    /\ UNCHANGED <<flight_prices, daily_best_prices, daily_seq, saved, call, result>>
    /\ UNCHANGED <<sweep, outbox, requests, procs, iteration, log>>

\* one whole compare_and_update_best_price call. adv is the time that passes
\* between the clock read of line 271 and the one of save_flight_price
\* (line 146, and CURRENT_TIMESTAMP of the INSERT).
CompareAndUpdateBestPrice(k, current_price, route, adv) ==
    /\ Len(flight_prices) < MaxRows
    /\ CanAdvance(clock, adv)
    /\ LET checked_date == clock.date
       IN \E last_price_record \in
                GetLastCheckedPrice(flight_prices, k.departure_date, k.return_date),
             today_best \in GetDailyBestPrice(daily_best_prices, checked_date) :
          LET fp == SaveFlightPrice(flight_prices, k.departure_date, k.return_date,
                                    route, current_price, Advance(clock, adv))
              record_id == Len(fp)
              is_new_best == IsNewBest(today_best, current_price)
          IN /\ flight_prices' = fp
             /\ saved' = [saved EXCEPT ![k] = @ + 1]
             /\ IF is_new_best
                THEN /\ daily_best_prices' =
                          UpdateDailyBestPrice(daily_best_prices, daily_seq,
                              checked_date, current_price, k.departure_date,
                              k.return_date, route, record_id)
                     /\ daily_seq' = daily_seq + 1
                ELSE UNCHANGED <<daily_best_prices, daily_seq>>
             /\ clock' = Advance(clock, adv)
             /\ call' = [op |-> "compare_and_update_best_price",
                         departure_date |-> k.departure_date,
                         return_date |-> k.return_date,
                         current_price |-> current_price,
                         checked_date |-> checked_date]
             /\ result' = ComparisonResult(current_price, last_price_record,
                                           today_best, is_new_best, record_id)

Compare ==
    /\ \E k \in Pairs, p \in Prices, r \in Routes, adv \in ClockAdvances :
          CompareAndUpdateBestPrice(k, p, r, adv)
    /\ UNCHANGED <<sweep, outbox, requests, procs, iteration, log>>

\* a direct save_flight_price call (the INSERT runs at the clock's reading)
SaveFlightPriceCall(k, total_price, route) ==
    /\ Len(flight_prices) < MaxRows
    /\ flight_prices' = SaveFlightPrice(flight_prices, k.departure_date,
                                        k.return_date, route, total_price, clock)
    /\ saved' = [saved EXCEPT ![k] = @ + 1]
    /\ call' = [op |-> "save_flight_price",
                departure_date |-> k.departure_date,
                return_date |-> k.return_date]
    /\ result' = Len(flight_prices) + 1
    /\ UNCHANGED <<daily_best_prices, daily_seq, clock>>

\* a direct get_last_checked_price call
GetLastCheckedPriceCall(k) ==
    /\ \E row \in GetLastCheckedPrice(flight_prices, k.departure_date, k.return_date) :
          result' = row
    /\ call' = [op |-> "get_last_checked_price",
                departure_date |-> k.departure_date,
                return_date |-> k.return_date]
    /\ UNCHANGED <<flight_prices, daily_best_prices, daily_seq, clock, saved>>

GetLast ==
    /\ \E k \in Pairs : GetLastCheckedPriceCall(k)
    /\ UNCHANGED <<sweep, outbox, requests, procs, iteration, log>>

\* a direct get_daily_best_price call
GetDailyBestPriceCall(date) ==
    /\ \E row \in GetDailyBestPrice(daily_best_prices, date) : result' = row
    /\ call' = [op |-> "get_daily_best_price", date |-> date]
    /\ UNCHANGED <<flight_prices, daily_best_prices, daily_seq, clock, saved>>

GetDailyBest ==
    /\ \E date \in 0..clock.date : GetDailyBestPriceCall(date)
    /\ UNCHANGED <<sweep, outbox, requests, procs, iteration, log>>

\* a direct update_daily_best_price call: a pure write, no comparison
UpdateDailyBestPriceCall(date, best_price, k, route, flight_record_id) ==
    /\ daily_seq < MaxRows
    /\ daily_best_prices' =
           UpdateDailyBestPrice(daily_best_prices, daily_seq, date, best_price,
               k.departure_date, k.return_date, route, flight_record_id)
    /\ daily_seq' = daily_seq + 1
    /\ call' = [op |-> "update_daily_best_price", date |-> date]
    /\ result' = None
    /\ UNCHANGED <<flight_prices, clock, saved>>

----------------------------------------------------------------------------
(* The tracker's sequence of comparator calls on one store *)

Next == Compare \/ TickSecond \/ TickMidnight

Spec == Init /\ [][Next]_vars

(* The writing operations of the store, called in any order, up to        *)
(* MaxStoreRows rows in each table. The route is payload here: every call  *)
(* carries the same one.                                                   *)

OneRoute == [inbound_airport |-> "NRT", outbound_airport |-> "KIX"]

StoreCompare ==
    /\ Len(flight_prices) < MaxStoreRows
    /\ \E k \in Pairs, p \in Prices, adv \in ClockAdvances :
           CompareAndUpdateBestPrice(k, p, OneRoute, adv)
    /\ UNCHANGED <<sweep, outbox, requests, procs, iteration, log>>

StoreSave ==
    /\ Len(flight_prices) < MaxStoreRows
    /\ \E k \in Pairs, p \in Prices : SaveFlightPriceCall(k, p, OneRoute)
    /\ UNCHANGED <<sweep, outbox, requests, procs, iteration, log>>

\* the caller passes the row it saved last, under any date so far
StoreUpdateDailyBest ==
    /\ daily_seq < MaxStoreRows
    /\ flight_prices # <<>>
    /\ LET id == Len(flight_prices)
           row == flight_prices[id]
       IN \E date \in 0..clock.date :
              UpdateDailyBestPriceCall(date, row.total_price,
                  [departure_date |-> row.departure_date,
                   return_date |-> row.return_date], OneRoute, id)
    /\ UNCHANGED <<sweep, outbox, requests, procs, iteration, log>>

NextStore ==
    \/ StoreCompare
    \/ StoreSave
    \/ StoreUpdateDailyBest
    \/ TickSecond
    \/ TickMidnight

SpecStore == Init /\ [][NextStore]_vars

(* Saves and lookups of the last checked price *)

ReadSave ==
    /\ \E k \in Pairs, p \in Prices, r \in Routes : SaveFlightPriceCall(k, p, r)
    /\ UNCHANGED <<sweep, outbox, requests, procs, iteration, log>>

NextRead == ReadSave \/ GetLast \/ GetDailyBest \/ TickSecond \/ TickMidnight

SpecRead == Init /\ [][NextRead]_vars

(* should_send_alert applied to drawn arguments *)

AlertPrices == {80, 89, 90, 91, 100, 110}

Thresholds == {0, DefaultThreshold, 20}

InitAlert ==
    /\ flight_prices = <<>>
    /\ daily_best_prices = {}
    /\ daily_seq = 0
    /\ clock = [date |-> 0, sec |-> 0]
    /\ saved = [k \in TrackedPairs |-> 0]
    /\ call \in [op : {"should_send_alert"},
                 current_price : AlertPrices,
                 last_checked_price : {None} \cup {Some(p) : p \in AlertPrices},
                 threshold : Thresholds]
    /\ result = None
    /\ sweep = Idle
    /\ outbox = <<>>
    /\ requests = 0
    /\ procs = [p \in Procs |-> NotCalling]
    /\ iteration = NotTracking
    /\ log = <<>>

ShouldSendAlertCall ==
    /\ call.op = "should_send_alert"
    /\ result = None
    /\ result' = Some(ShouldSendAlert(call.current_price, call.last_checked_price,
                                      call.threshold))
    /\ UNCHANGED <<flight_prices, daily_best_prices, daily_seq, clock, saved, call>>
    /\ UNCHANGED <<sweep, outbox, requests, procs, iteration, log>>

SpecAlert == InitAlert /\ [][ShouldSendAlertCall]_vars

(* The comparator when the process dies, or the store raises, inside a     *)
(* call. Every operation of TravelTrackerDB opens its own connection, so   *)
(* the INSERT of save_flight_price is committed before                     *)
(* update_daily_best_price starts. The calls of this specification do not  *)
(* straddle midnight.                                                      *)

SameDayAdvances == {"none", "second"}

\* the operations compare_and_update_best_price calls, in call order
StoreOperations ==
    {"get_last_checked_price", "get_daily_best_price", "save_flight_price",
     "update_daily_best_price"}

\* faulty variant: what the block wrote stays although it raised
GetConnection_NoRollback(before, after, raises) == after

\* _get_connection: the table after a block that takes it from before to
\* after; commit when the block ends, rollback and re-raise when it raises
GetConnection(before, after, raises) == IF raises THEN before ELSE after

\* a compare_and_update_best_price call the process does not survive: it
\* dies after save_flight_price has returned (line 309) and before
\* update_daily_best_price (line 315). Nothing is returned.
CompareAndCrash(k, current_price, route, adv) ==
    /\ CanAdvance(clock, adv)
    /\ flight_prices' = SaveFlightPrice(flight_prices, k.departure_date,
                            k.return_date, route, current_price, Advance(clock, adv))
    /\ saved' = [saved EXCEPT ![k] = @ + 1]
    /\ clock' = Advance(clock, adv)
    /\ call' = [op |-> "compare_and_update_best_price",
                departure_date |-> k.departure_date,
                return_date |-> k.return_date,
                current_price |-> current_price,
                checked_date |-> clock.date]
    /\ result' = None
    /\ UNCHANGED <<daily_best_prices, daily_seq>>

\* a compare_and_update_best_price call in which the store operation
\* `failing` raises (sqlite3.Error): no statement of the function catches
\* it, the operations before it have committed, the ones after do not run.
CompareAndRaise(k, current_price, route, adv, failing) ==
    /\ CanAdvance(clock, adv)
    /\ LET checked_date == clock.date
           inserted == failing \in {"save_flight_price", "update_daily_best_price"}
           fp == SaveFlightPrice(flight_prices, k.departure_date, k.return_date,
                                 route, current_price, Advance(clock, adv))
       IN \E today_best \in GetDailyBestPrice(daily_best_prices, checked_date) :
          \* update_daily_best_price is called for a new best only (line 313)
          /\ \E is_new_best \in {IsNewBest(today_best, current_price)} :
                 failing = "update_daily_best_price" => is_new_best
          /\ flight_prices' =
                IF inserted
                THEN GetConnection(flight_prices, fp, failing = "save_flight_price")
                ELSE flight_prices
          /\ saved' = IF failing = "update_daily_best_price"
                      THEN [saved EXCEPT ![k] = @ + 1]
                      ELSE saved
          /\ daily_best_prices' =
                IF failing = "update_daily_best_price"
                THEN GetConnection(daily_best_prices,
                         UpdateDailyBestPrice(daily_best_prices, daily_seq,
                             checked_date, current_price, k.departure_date,
                             k.return_date, route, Len(fp)),
                         TRUE)
                ELSE daily_best_prices
          /\ daily_seq' = daily_seq
          /\ clock' = Advance(clock, adv)
          /\ call' = [op |-> "compare_and_update_best_price",
                      departure_date |-> k.departure_date,
                      return_date |-> k.return_date,
                      current_price |-> current_price,
                      checked_date |-> checked_date,
                      failing |-> failing]
          /\ result' = [raised |-> "sqlite3.Error", operation |-> failing]

FaultCompare ==
    /\ Len(flight_prices) < MaxStoreRows
    /\ \E k \in Pairs, p \in Prices, adv \in SameDayAdvances :
           CompareAndUpdateBestPrice(k, p, OneRoute, adv)
    /\ UNCHANGED <<sweep, outbox, requests, procs, iteration, log>>

FaultCrash ==
    /\ Len(flight_prices) < MaxStoreRows
    /\ \E k \in Pairs, p \in Prices, adv \in SameDayAdvances :
           CompareAndCrash(k, p, OneRoute, adv)
    /\ UNCHANGED <<sweep, outbox, requests, procs, iteration, log>>

FaultRaise ==
    /\ Len(flight_prices) < MaxStoreRows
    /\ \E k \in Pairs, p \in Prices, adv \in SameDayAdvances, failing \in StoreOperations :
           CompareAndRaise(k, p, OneRoute, adv, failing)
    /\ UNCHANGED <<sweep, outbox, requests, procs, iteration, log>>

NextFault ==
    \/ FaultCompare
    \/ FaultCrash
    \/ FaultRaise
    \/ TickSecond
    \/ TickMidnight

SpecFault == Init /\ [][NextFault]_vars


(* PriceTracker: track_flight_prices and the loop of track_all_dates. The  *)
(* field search of sweep is what the search of the last iteration gave,    *)
(* delivery how its alert e-mail went, if one was attempted.               *)

\* the total prices of the combined options the provider has for a pair
Offers == {{}, {-5}, {505}, {520}, {505, 520}}

\* what the provider answers for a date pair: its offers, or the APIError
\* search_flights raises
ProviderReplies ==
    {[raises |-> "APIError"]} \cup {[offers |-> o] : o \in Offers}

\* search_best_open_jaw: no statement between search_flights and the
\* tracker catches an exception; otherwise success is true and best_option
\* is the cheapest combined option, None when there is none
SearchBestOpenJaw(reply) ==
    IF "raises" \in DOMAIN reply
    THEN reply
    ELSE [success |-> TRUE,
          best_option |->
              IF reply.offers = {}
              THEN None
              ELSE Some([total_price |->
                             CHOOSE p \in reply.offers : \A q \in reply.offers : p <= q,
                         inbound_airport |-> OneRoute.inbound_airport,
                         outbound_airport |-> OneRoute.outbound_airport])]

\* what track_flight_prices may get from its searcher; line 60 also
\* provides for a result whose success is false
SearchResults ==
    { SearchBestOpenJaw(reply) : reply \in ProviderReplies } \cup
    { [success |-> FALSE, best_option |-> None] }

\* how the alert block of lines 113-138 ends: the server took the message,
\* send_email returned False, or a statement of the block raised
DeliveryOutcomes == {"sent", "refused", "raises"}

\* faulty variant: the result says the pair was tracked
NoFlightsFound_Success(departure_date, return_date) ==
    [success |-> TRUE,
     message |-> "No flights found",
     departure_date |-> departure_date,
     return_date |-> return_date]

\* track_flight_prices, lines 61-66
NoFlightsFound(departure_date, return_date) ==
    [success |-> FALSE,
     message |-> "No flights found",
     departure_date |-> departure_date,
     return_date |-> return_date]

\* faulty variant: no except clause around the alert block
SendPriceDropAlert_Uncaught(box, email, delivery) ==
    [outbox |-> IF delivery = "sent" THEN Append(box, email) ELSE box,
     raised |-> delivery = "raises"]

\* track_flight_prices, lines 112-140: the outbox after the alert block and
\* whether the block raises to its caller (line 139 catches every Exception)
SendPriceDropAlert(box, email, delivery) ==
    [outbox |-> IF delivery = "sent" THEN Append(box, email) ELSE box,
     raised |-> FALSE]

\* track_flight_prices, lines 146-153
TrackResult(departure_date, return_date, comparison, should_alert, email_notifier) ==
    [success |-> TRUE,
     departure_date |-> departure_date,
     return_date |-> return_date,
     comparison |-> comparison,
     should_alert |-> should_alert,
     email_sent |-> should_alert /\ email_notifier]

\* track_all_dates is called on a new PriceTracker, whose email_notifier is
\* set or None
TrackAllDates ==
    /\ sweep.status # "running"
    /\ \E email_notifier \in BOOLEAN :
          sweep' = [Idle EXCEPT !.status = "running",
                                !.email_notifier = email_notifier]
    /\ UNCHANGED <<flight_prices, daily_best_prices, daily_seq, clock, saved,
                   call, result, outbox, requests, procs, iteration, log>>

\* one iteration of the loop: the search raises out of track_flight_prices
\* and out of track_all_dates
TrackSearchRaises(search) ==
    /\ "raises" \in DOMAIN search
    /\ sweep' = [sweep EXCEPT !.status = "raised", !.search = Some(search),
                              !.delivery = None]
    /\ UNCHANGED <<flight_prices, daily_best_prices, daily_seq, clock, saved,
                   call, result, outbox>>

\* one iteration of the loop: track_flight_prices returns at line 61
TrackNoFlights(k, search) ==
    /\ "raises" \notin DOMAIN search
    /\ ~ search.success \/ search.best_option = None
    /\ sweep' = [sweep EXCEPT
                    !.results = Append(@, NoFlightsFound(k.departure_date, k.return_date)),
                    !.current = @ + 1,
                    !.search = Some(search),
                    !.delivery = None]
    /\ UNCHANGED <<flight_prices, daily_best_prices, daily_seq, clock, saved,
                   call, result, outbox>>

\* one iteration of the loop: track_flight_prices records the best option,
\* evaluates the alert and sends it
TrackBestOption(k, search, adv) ==
    /\ "raises" \notin DOMAIN search
    /\ search.success /\ search.best_option # None
    /\ LET best == search.best_option[1]
           current_price == best.total_price
       IN /\ CompareAndUpdateBestPrice(k, current_price, best, adv)
          /\ LET comparison == result'
                 last_price == comparison.last_checked_price
                 should_alert == ShouldSendAlert(current_price, last_price,
                                                 DefaultThreshold)
                 attempted == should_alert /\ sweep.email_notifier
                 email == [departure_date |-> k.departure_date,
                           return_date |-> k.return_date,
                           current_price |-> current_price,
                           previous_price |-> last_price,
                           price_drop |-> comparison.price_drop]
             IN \E delivery \in IF attempted THEN DeliveryOutcomes ELSE {"none"} :
                LET alert == IF attempted
                             THEN SendPriceDropAlert(outbox, email, delivery)
                             ELSE [outbox |-> outbox, raised |-> FALSE]
                IN /\ outbox' = alert.outbox
                   /\ sweep' =
                         IF alert.raised
                         THEN [sweep EXCEPT !.status = "raised",
                                            !.search = Some(search),
                                            !.delivery = Some(delivery)]
                         ELSE LET tracked ==
                                      TrackResult(k.departure_date, k.return_date,
                                          comparison, should_alert,
                                          sweep.email_notifier)
                              IN [sweep EXCEPT
                                  !.results = Append(@, tracked),
                                  !.alerts = IF tracked.should_alert
                                             THEN Append(@, tracked)
                                             ELSE @,
                                  !.current = @ + 1,
                                  !.search = Some(search),
                                  !.delivery = IF attempted THEN Some(delivery)
                                               ELSE None]

\* track_all_dates, lines 180-190
TrackFlightPrices ==
    /\ sweep.status = "running"
    /\ sweep.current <= Len(Window)
    /\ \E search \in SearchResults :
          LET k == Window[sweep.current]
          IN \/ TrackSearchRaises(search)
             \/ TrackNoFlights(k, search)
             \/ /\ Len(flight_prices) < MaxStoreRows
                /\ \E adv \in SameDayAdvances : TrackBestOption(k, search, adv)
    /\ UNCHANGED <<requests, procs, iteration, log>>

\* track_all_dates, lines 206-212
TrackAllDatesSummary(results, alerts) ==
    [success |-> TRUE,
     results |-> results,
     alerts |-> alerts,
     total_tracked |-> Len(results),
     alerts_count |-> Len(alerts)]

\* track_all_dates, lines 192-212: the loop is over
TrackAllDatesReturn ==
    /\ sweep.status = "running"
    /\ sweep.current > Len(Window)
    /\ sweep' = [sweep EXCEPT
                    !.status = "returned",
                    !.summary = Some(TrackAllDatesSummary(sweep.results, sweep.alerts))]
    /\ UNCHANGED <<flight_prices, daily_best_prices, daily_seq, clock, saved,
                   call, result, outbox, requests, procs, iteration, log>>

NextTrack ==
    \/ TrackAllDates
    \/ TrackFlightPrices
    \/ TrackAllDatesReturn
    \/ TickSecond
    \/ TickMidnight

SpecTrack == Init /\ [][NextTrack]_vars

(* PriceTracker.get_price_history on a store filled by save_flight_price   *)

\* faulty variant: ORDER BY checked_date ASC, created_at ASC
GetPriceHistory_Ascending(fp, departure_date, return_date) ==
    LET rows == RowsOf(fp, departure_date, return_date)
        n == Cardinality(rows)
    IN { [i \in 1..n |-> [id |-> f[i]] @@ fp[f[i]]] :
           f \in { g \in [1..n -> rows] :
                     /\ \A i, j \in 1..n : g[i] = g[j] => i = j
                     /\ \A i \in 1..(n - 1) : SortsNotAfter(fp[g[i + 1]], fp[g[i]]) } }

\* get_price_history: the lists fetchall() may return, one per order of the
\* pair's rows that ORDER BY checked_date DESC, created_at DESC allows. The
\* SELECT keeps four columns of each row; the row is kept whole here, with
\* its id, so that it can be told which row it is.
GetPriceHistory(fp, departure_date, return_date) ==
    LET rows == RowsOf(fp, departure_date, return_date)
        n == Cardinality(rows)
    IN { [i \in 1..n |-> [id |-> f[i]] @@ fp[f[i]]] :
           f \in { g \in [1..n -> rows] :
                     /\ \A i, j \in 1..n : g[i] = g[j] => i = j
                     /\ \A i \in 1..(n - 1) : SortsNotAfter(fp[g[i]], fp[g[i + 1]]) } }

\* a get_price_history call
GetPriceHistoryCall(k) ==
    /\ \E rows \in GetPriceHistory(flight_prices, k.departure_date, k.return_date) :
          result' = rows
    /\ call' = [op |-> "get_price_history",
                departure_date |-> k.departure_date,
                return_date |-> k.return_date]
    /\ UNCHANGED <<flight_prices, daily_best_prices, daily_seq, clock, saved>>

GetHistory ==
    /\ \E k \in Pairs : GetPriceHistoryCall(k)
    /\ UNCHANGED <<sweep, outbox, requests, procs, iteration, log>>

NextHistory ==
    \/ StoreSave
    \/ StoreCompare
    \/ GetHistory
    \/ TickSecond
    \/ TickMidnight

SpecHistory == Init /\ [][NextHistory]_vars

(* AmadeusClient.search_flights. An airport code is the sequence of its    *)
(* characters; a departure date is what strptime makes of it, a day       *)
(* number or None when it does not parse; now is datetime.now() read in    *)
(* validate_date, a day and the time of day (0 is midnight sharp). The     *)
(* provider's script is what it answers to the first, second, ... request  *)
(* of the call, the last answer repeating.                                 *)

StopAfterAttempt == 3
MinPassengers == 1
MaxPassengers == 9

AirportCodes ==
    { <<"S", "A", "N">>, <<"s", "a", "n">>, <<" ", "S", "A", "N">>,
      <<"S", "A">>, <<"S", "A", "1">> }

Destinations == { <<"J", "F", "K">>, <<"J", "F">> }

DepartureDates == {None, Some(0), Some(1), Some(2)}

Nows == [date : {1}, time : {0, 1}]

PassengerCounts == {0, MinPassengers, MaxPassengers, 10}

Offered == [data |-> "offers"]

ResponseError(status_code) == [error |-> "ResponseError", status_code |-> status_code]

ProviderScripts ==
    { <<Offered>>,
      <<ResponseError(400)>>,
      <<ResponseError(500), Offered>>,
      <<[error |-> "ConnectionError"], Offered>> }

\* str.upper on the characters of the model
Upper(c) ==
    CASE c = "s" -> "S"
      [] c = "a" -> "A"
      [] c = "n" -> "N"
      [] OTHER -> c

\* str.strip
RECURSIVE Strip(_)
Strip(code) ==
    IF code # <<>> /\ Head(code) = " " THEN Strip(Tail(code))
    ELSE IF code # <<>> /\ code[Len(code)] = " "
         THEN Strip(SubSeq(code, 1, Len(code) - 1))
         ELSE code

\* validate_airport_code: does not raise
ValidAirportCode(code) ==
    /\ code # <<>>
    /\ LET upper == Strip([i \in 1..Len(code) |-> Upper(code[i])])
       IN /\ Len(upper) = 3
          /\ \A i \in 1..3 : upper[i] \in {"A", "F", "J", "K", "N", "S"}

\* validate_date: does not raise. The parsed date is its midnight, and it
\* is refused when parsed_date < datetime.now() (line 54)
ValidDate(date, now) ==
    /\ date # None
    /\ ~ (date[1] < now.date \/ (date[1] = now.date /\ 0 < now.time))

\* validate_passenger_count: does not raise
ValidPassengerCount(count) == ~ (count < MinPassengers \/ count > MaxPassengers)

\* the provider's answer to request number n
ReplyAt(script, n) == IF n <= Len(script) THEN script[n] ELSE script[Len(script)]

\* one run of the body of search_flights, lines 99-171: what it returns or
\* raises, and whether it got as far as the request of line 131
SearchFlightsBody(args, reply) ==
    IF ~ (/\ ValidAirportCode(args.origin)
          /\ ValidAirportCode(args.destination)
          /\ ValidDate(args.departure_date, args.now)
          /\ ValidPassengerCount(args.adults))
    THEN [raised |-> "ValidationError", requested |-> FALSE]
    ELSE IF reply = Offered
         THEN [success |-> TRUE, requested |-> TRUE]
         ELSE [raised |-> "APIError",
               status_code |-> IF reply.error = "ResponseError"
                               THEN Some(reply.status_code)
                               ELSE None,
               requested |-> TRUE]

\* the exception types the retry decorator retries on (line 68)
RetriedExceptions == {"ResponseError", "ConnectionError", "TimeoutError"}

\* search_flights under its decorator, lines 65-70: the body runs again
\* while what it raised is of a retried type and attempts are left; tenacity
\* may be missing (lines 17-34), then the body runs once
RECURSIVE SearchFlights(_, _, _, _)
SearchFlights(args, script, retry_available, attempt) ==
    LET out == SearchFlightsBody(args, ReplyAt(script, attempt))
        issued == IF out.requested THEN 1 ELSE 0
    IN IF /\ retry_available
          /\ "raised" \in DOMAIN out
          /\ out.raised \in RetriedExceptions
          /\ attempt < StopAfterAttempt
       THEN LET rest == SearchFlights(args, script, retry_available, attempt + 1)
            IN [rest EXCEPT !.requests = @ + issued]
       ELSE [outcome |-> out, requests |-> issued]

InitSearch ==
    /\ flight_prices = <<>>
    /\ daily_best_prices = {}
    /\ daily_seq = 0
    /\ clock = [date |-> 0, sec |-> 0]
    /\ saved = [k \in TrackedPairs |-> 0]
    /\ call \in [op : {"search_flights"},
                 origin : AirportCodes,
                 destination : Destinations,
                 departure_date : DepartureDates,
                 adults : PassengerCounts,
                 now : Nows,
                 script : ProviderScripts,
                 retry_available : BOOLEAN]
    /\ result = None
    /\ sweep = Idle
    /\ outbox = <<>>
    /\ requests = 0
    /\ procs = [p \in Procs |-> NotCalling]
    /\ iteration = NotTracking
    /\ log = <<>>

SearchFlightsCall ==
    /\ call.op = "search_flights"
    /\ result = None
    /\ LET done == SearchFlights(call, call.script, call.retry_available, 1)
       IN /\ result' = Some(done.outcome)
          /\ requests' = done.requests
    /\ UNCHANGED <<flight_prices, daily_best_prices, daily_seq, clock, saved, call,
                   sweep, outbox, procs, iteration, log>>

SpecSearch == InitSearch /\ [][SearchFlightsCall]_vars

(* compare_and_update_best_price run by several processes on one store,    *)
(* one call each, one store operation at a time. Every operation opens its *)
(* connection, runs its statement and commits: it is one step, and the     *)
(* steps of the processes and of a reader interleave in any order.         *)

\* line 271: the call starts and reads the date
ProcCall(p, k, current_price) ==
    /\ procs[p].pc = "idle"
    /\ procs' = [procs EXCEPT ![p] =
                    [NotCalling EXCEPT !.pc = "get_last_checked_price",
                                       !.departure_date = k.departure_date,
                                       !.return_date = k.return_date,
                                       !.current_price = current_price,
                                       !.checked_date = clock.date]]
    /\ UNCHANGED <<flight_prices, daily_best_prices, daily_seq, clock, saved,
                   call, result>>

\* line 274
ProcGetLastCheckedPrice(p) ==
    /\ procs[p].pc = "get_last_checked_price"
    /\ \E row \in GetLastCheckedPrice(flight_prices, procs[p].departure_date,
                                      procs[p].return_date) :
          procs' = [procs EXCEPT ![p].last_price_record = row,
                                 ![p].pc = "get_daily_best_price"]
    /\ UNCHANGED <<flight_prices, daily_best_prices, daily_seq, clock, saved,
                   call, result>>

\* line 277
ProcGetDailyBestPrice(p) ==
    /\ procs[p].pc = "get_daily_best_price"
    /\ \E row \in GetDailyBestPrice(daily_best_prices, procs[p].checked_date) :
          procs' = [procs EXCEPT ![p].today_best = row,
                                 ![p].pc = "save_flight_price"]
    /\ UNCHANGED <<flight_prices, daily_best_prices, daily_seq, clock, saved,
                   call, result>>

\* lines 296-309
ProcSaveFlightPrice(p) ==
    /\ procs[p].pc = "save_flight_price"
    /\ flight_prices' = SaveFlightPrice(flight_prices, procs[p].departure_date,
                            procs[p].return_date, OneRoute, procs[p].current_price,
                            clock)
    /\ saved' = [saved EXCEPT ![[departure_date |-> procs[p].departure_date,
                                 return_date |-> procs[p].return_date]] = @ + 1]
    /\ procs' = [procs EXCEPT ![p].record_id = Len(flight_prices) + 1,
                             ![p].pc = "update_daily_best_price"]
    /\ UNCHANGED <<daily_best_prices, daily_seq, clock, call, result>>

\* lines 312-340: the comparison with the row read at line 277, the upsert
\* and the return
ProcUpdateDailyBestPrice(p) ==
    /\ procs[p].pc = "update_daily_best_price"
    /\ LET me == procs[p]
           is_new_best == IsNewBest(me.today_best, me.current_price)
       IN /\ IF is_new_best
             THEN /\ daily_best_prices' =
                         UpdateDailyBestPrice(daily_best_prices, daily_seq,
                             me.checked_date, me.current_price, me.departure_date,
                             me.return_date, OneRoute, me.record_id)
                  /\ daily_seq' = daily_seq + 1
             ELSE UNCHANGED <<daily_best_prices, daily_seq>>
          /\ call' = [op |-> "compare_and_update_best_price",
                      departure_date |-> me.departure_date,
                      return_date |-> me.return_date,
                      current_price |-> me.current_price,
                      checked_date |-> me.checked_date]
          /\ result' = ComparisonResult(me.current_price, me.last_price_record,
                                        me.today_best, is_new_best, me.record_id)
    /\ procs' = [procs EXCEPT ![p] = [NotCalling EXCEPT !.pc = "returned"]]
    /\ UNCHANGED <<flight_prices, clock, saved>>

ConcurrentCall ==
    /\ \E p \in Procs, k \in Pairs, current_price \in Prices : ProcCall(p, k, current_price)
    /\ UNCHANGED <<sweep, outbox, requests, iteration, log>>

ConcurrentGetLastCheckedPrice ==
    /\ \E p \in Procs : ProcGetLastCheckedPrice(p)
    /\ UNCHANGED <<sweep, outbox, requests, iteration, log>>

ConcurrentGetDailyBestPrice ==
    /\ \E p \in Procs : ProcGetDailyBestPrice(p)
    /\ UNCHANGED <<sweep, outbox, requests, iteration, log>>

ConcurrentSaveFlightPrice ==
    /\ \E p \in Procs : ProcSaveFlightPrice(p)
    /\ UNCHANGED <<sweep, outbox, requests, iteration, log>>

ConcurrentUpdateDailyBestPrice ==
    /\ \E p \in Procs : ProcUpdateDailyBestPrice(p)
    /\ UNCHANGED <<sweep, outbox, requests, iteration, log>>

\* the reader is any process that calls the two lookups between the steps
NextConcurrent ==
    \/ ConcurrentCall
    \/ ConcurrentGetLastCheckedPrice
    \/ ConcurrentGetDailyBestPrice
    \/ ConcurrentSaveFlightPrice
    \/ ConcurrentUpdateDailyBestPrice
    \/ GetLast
    \/ GetDailyBest
    \/ TickSecond
    \/ TickMidnight

SpecConcurrent == Init /\ [][NextConcurrent]_vars

(* run_daily_tracking, one step at a time: the sweep of track_all_dates    *)
(* with each track_flight_prices call split where it talks to the          *)
(* provider, the store and the notifier, then the daily report. The        *)
(* process may be killed between the comparator's return and the alert     *)
(* block; the next run then finds the store as the killed one left it.     *)
(* log keeps what the runs did since the last run that was not a re-run:   *)
(* "search" the request to the provider, "write" the comparator call,      *)
(* "alert" the call of send_price_drop_alert, "return" the end of a        *)
(* track_flight_prices call, "interrupt" a kill, "report" a daily report   *)
(* that reached the notifier.                                              *)

\* an entry of log; pair is the position of the date pair in Window
Event(ev, pair, record_id, should_alert, best_price) ==
    [ev |-> ev, pair |-> pair, record_id |-> record_id,
     should_alert |-> should_alert, best_price |-> best_price]

\* what the provider has for a date pair during a run
RunProviderReplies ==
    { [raises |-> "APIError"], [offers |-> {}], [offers |-> {505}], [offers |-> {520}] }

\* faulty variant: the alert is sent whatever should_send_alert returned
AlertAttempted_Always(should_alert, email_notifier) == email_notifier

\* track_flight_prices, lines 108-112: send_price_drop_alert is called
AlertAttempted(should_alert, email_notifier) == should_alert /\ email_notifier

\* the parameters of EmailNotifier.send_daily_report, none with a default
SendDailyReportParameters ==
    {"date", "best_price", "currency", "total_searches", "alerts_count",
     "price_history"}

\* the keyword arguments run_daily_tracking passes to it
DailyReportKeywords ==
    {"date", "best_price", "currency", "total_searches", "alerts_count",
     "price_history", "itinerary_suggestion"}

\* Python binds a call's keyword arguments to the parameters: TypeError on
\* a keyword that is no parameter and on a parameter left without a value
BindsArguments(keywords, parameters) ==
    /\ keywords \subseteq parameters
    /\ parameters \subseteq keywords

\* run_daily_tracking, lines 36-37: a new PriceTracker starts its sweep. A
\* re-run after a kill runs under the configuration of the killed run.
RunDailyTracking ==
    /\ sweep.status \in {"idle", "interrupted", "raised", "done"}
    /\ \E email_notifier \in IF sweep.status = "interrupted"
                             THEN {sweep.email_notifier}
                             ELSE BOOLEAN :
          sweep' = [Idle EXCEPT !.status = "running",
                                !.email_notifier = email_notifier]
    /\ iteration' = NotTracking
    /\ log' = IF sweep.status = "interrupted" THEN log ELSE <<>>
    /\ UNCHANGED <<flight_prices, daily_best_prices, daily_seq, clock, saved,
                   call, result, outbox, requests, procs>>

\* track_flight_prices, lines 54-66: the search and what becomes of it
RunSearch ==
    /\ sweep.status = "running"
    /\ iteration.pc = "idle"
    /\ sweep.current <= Len(Window)
    /\ \E reply \in RunProviderReplies :
          LET search == SearchBestOpenJaw(reply)
              k == Window[sweep.current]
              searched == Append(log, Event("search", sweep.current, 0, FALSE, 0))
          IN IF "raises" \in DOMAIN search
             THEN /\ sweep' = [sweep EXCEPT !.status = "raised",
                                            !.search = Some(search),
                                            !.delivery = None]
                  /\ iteration' = iteration
                  /\ log' = searched
             ELSE IF ~ search.success \/ search.best_option = None
             THEN /\ sweep' = [sweep EXCEPT
                                  !.results = Append(@, NoFlightsFound(k.departure_date,
                                                                       k.return_date)),
                                  !.current = @ + 1,
                                  !.search = Some(search),
                                  !.delivery = None]
                  /\ iteration' = iteration
                  /\ log' = Append(searched,
                                   Event("return", sweep.current, 0, FALSE, 0))
             ELSE /\ sweep' = [sweep EXCEPT !.search = Some(search),
                                            !.delivery = None]
                  /\ iteration' = [NotTracking EXCEPT !.pc = "compare",
                                                      !.search = Some(search)]
                  /\ log' = searched
    /\ UNCHANGED <<flight_prices, daily_best_prices, daily_seq, clock, saved,
                   call, result, outbox, requests, procs>>

\* track_flight_prices, lines 68-87: the comparator call and should_send_alert
TrackCompare ==
    /\ sweep.status = "running"
    /\ iteration.pc = "compare"
    /\ LET best == iteration.search[1].best_option[1]
           k == Window[sweep.current]
       IN /\ CompareAndUpdateBestPrice(k, best.total_price, best, "none")
          /\ iteration' = [iteration EXCEPT
                              !.pc = "alert",
                              !.comparison = Some(result'),
                              !.should_alert =
                                  Some(ShouldSendAlert(best.total_price,
                                           result'.last_checked_price,
                                           DefaultThreshold))]
          /\ log' = Append(log, Event("write", sweep.current, result'.record_id,
                                      FALSE, 0))
    /\ UNCHANGED <<sweep, outbox, requests, procs>>

\* track_flight_prices, lines 108-153, and lines 185-190 of the loop: the
\* alert block, the result and its place in the lists of the sweep
RunAlert ==
    /\ sweep.status = "running"
    /\ iteration.pc = "alert"
    /\ LET k == Window[sweep.current]
           comparison == iteration.comparison[1]
           should_alert == iteration.should_alert[1]
           attempted == AlertAttempted(should_alert, sweep.email_notifier)
           email == [departure_date |-> k.departure_date,
                     return_date |-> k.return_date,
                     current_price |-> comparison.current_price,
                     previous_price |-> comparison.last_checked_price,
                     price_drop |-> comparison.price_drop]
           tracked == TrackResult(k.departure_date, k.return_date, comparison,
                                  should_alert, sweep.email_notifier)
       IN \E delivery \in IF attempted THEN DeliveryOutcomes ELSE {"none"} :
          LET alert == IF attempted
                       THEN SendPriceDropAlert(outbox, email, delivery)
                       ELSE [outbox |-> outbox, raised |-> FALSE]
              alerted == IF attempted
                         THEN Append(log, Event("alert", sweep.current,
                                                comparison.record_id, should_alert, 0))
                         ELSE log
          IN /\ outbox' = alert.outbox
             /\ log' = IF alert.raised
                       THEN alerted
                       ELSE Append(alerted, Event("return", sweep.current,
                                                  comparison.record_id, should_alert, 0))
             /\ sweep' =
                   IF alert.raised
                   THEN [sweep EXCEPT !.status = "raised",
                                      !.delivery = Some(delivery)]
                   ELSE [sweep EXCEPT
                            !.results = Append(@, tracked),
                            !.alerts = IF tracked.should_alert
                                       THEN Append(@, tracked)
                                       ELSE @,
                            !.current = @ + 1,
                            !.delivery = IF attempted THEN Some(delivery) ELSE None]
    /\ iteration' = NotTracking
    /\ UNCHANGED <<flight_prices, daily_best_prices, daily_seq, clock, saved,
                   call, result, requests, procs>>

\* the process is killed after compare_and_update_best_price has returned
\* (line 83) and before the alert block (line 108)
RunInterrupt ==
    /\ sweep.status = "running"
    /\ iteration.pc = "alert"
    /\ sweep' = [sweep EXCEPT !.status = "interrupted"]
    /\ iteration' = NotTracking
    /\ log' = Append(log, Event("interrupt", sweep.current, 0, FALSE, 0))
    /\ UNCHANGED <<flight_prices, daily_best_prices, daily_seq, clock, saved,
                   call, result, outbox, requests, procs>>

\* run_daily_tracking, lines 40-86: the daily report. The TypeError of a
\* call that does not bind is caught at line 76.
RunDailyReport ==
    /\ sweep.status = "returned"
    /\ sweep' = [sweep EXCEPT !.status = "done"]
    /\ IF sweep.email_notifier
       THEN \E today_best \in GetDailyBestPrice(daily_best_prices, clock.date) :
               LET best_price == IF today_best # None
                                 THEN today_best[1].best_price
                                 ELSE 0
               IN log' = IF BindsArguments(DailyReportKeywords,
                                           SendDailyReportParameters)
                         THEN Append(log, Event("report", 0, 0, FALSE, best_price))
                         ELSE log
       ELSE log' = log
    /\ UNCHANGED <<flight_prices, daily_best_prices, daily_seq, clock, saved,
                   call, result, outbox, requests, procs, iteration>>

\* runs that are not killed, on a store of up to MaxStoreRows observations
RunCompare == Len(flight_prices) < MaxStoreRows /\ TrackCompare

NextRun ==
    \/ RunDailyTracking
    \/ RunSearch
    \/ RunCompare
    \/ RunAlert
    \/ TrackAllDatesReturn
    \/ RunDailyReport
    \/ TickSecond
    \/ TickMidnight

SpecRun == Init /\ [][NextRun]_vars

\* runs that may be killed and run again, up to MaxRows observations
NextRerun ==
    \/ RunDailyTracking
    \/ RunSearch
    \/ TrackCompare
    \/ RunAlert
    \/ RunInterrupt
    \/ TrackAllDatesReturn
    \/ RunDailyReport
    \/ TickSecond
    \/ TickMidnight

SpecRerun == Init /\ [][NextRerun]_vars


----------------------------------------------------------------------------
(* What the properties below speak of *)

Min(S) == CHOOSE x \in S : \A y \in S : x <= y

Max(S) == CHOOSE x \in S : \A y \in S : x >= y

IsCompare == call.op = "compare_and_update_best_price"

\* the observations stored for a pair
ObservationsOf(departure_date, return_date) ==
    { i \in 1..Len(flight_prices) :
        /\ flight_prices[i].departure_date = departure_date
        /\ flight_prices[i].return_date = return_date }

\* the observations of the call's pair that existed before the call
PriorRows ==
    ObservationsOf(call.departure_date, call.return_date) \ {result.record_id}

\* the other observations whose checked_date is the day of the call
OtherRowsOfDay ==
    { i \in 1..Len(flight_prices) :
        i # result.record_id /\ flight_prices[i].checked_date = call.checked_date }

\* the observations with one checked_date
RowsChecked(d) == { i \in 1..Len(flight_prices) : flight_prices[i].checked_date = d }

(* C1: for the observations that share one checked_date, all fed through   *)
(* compare_and_update_best_price calls that ran to completion, the         *)
(* daily-best row of that date holds the minimum total_price among them.   *)
C1_BestIsMinimumOfDay ==
    \A d \in { flight_prices[i].checked_date : i \in 1..Len(flight_prices) } :
        \E r \in daily_best_prices :
            /\ r.date = d
            /\ r.best_price = Min({ flight_prices[i].total_price : i \in RowsChecked(d) })

(* C2: a compare_and_update_best_price call never raises the best_price    *)
(* stored for a day: a row changes only by its first insert or by a        *)
(* replacement with a strictly lower price.                                *)
C2_BestNeverIncreases ==
    [][\A r \in daily_best_prices :
          \E r2 \in daily_best_prices' :
              /\ r2.date = r.date
              /\ r2 = r \/ r2.best_price < r.best_price]_vars

\* a call has replaced the day's row by a strictly lower price
C2_Witness ==
    /\ IsCompare
    /\ result.is_new_best_today
    /\ result.today_best_price > result.current_price
    /\ \E r \in daily_best_prices :
          r.date = call.checked_date /\ r.best_price = result.current_price

(* C3: the daily-best table holds at most one row per date, whatever       *)
(* compare_and_update_best_price and update_daily_best_price calls ran.    *)
C3_OneRowPerDate ==
    \A r1 \in daily_best_prices, r2 \in daily_best_prices :
        r1.date = r2.date => r1 = r2

\* a date was written twice and has one row, the one written last
C3_Witness ==
    /\ daily_seq >= 2
    /\ Cardinality(daily_best_prices) = 1
    /\ \E r \in daily_best_prices : r.id = daily_seq

(* C4: the number of flight-price rows of a pair is the number of          *)
(* successful saves for it (direct or inside the comparator), and no       *)
(* operation changes or deletes a row once saved.                          *)
C4_AppendOnly ==
    /\ [](\A k \in Pairs :
            Cardinality(ObservationsOf(k.departure_date, k.return_date)) = saved[k])
    /\ [][\A i \in 1..Len(flight_prices) :
            /\ i <= Len(flight_prices')
            /\ flight_prices'[i] = flight_prices[i]]_vars

\* one pair was saved twice, once directly and once by the comparator
C4_Witness ==
    /\ \E k \in Pairs : saved[k] = 2
    /\ Len(flight_prices) = 2
    /\ call.op = "save_flight_price"
    /\ daily_best_prices # {}

(* C6: the last_checked_price a compare_and_update_best_price call returns *)
(* is the price of the latest observation of the pair that existed before  *)
(* the call (none if there was none), never that of the row it inserted.   *)
C6_PreviousIsLatestPrior ==
    IsCompare =>
        result.last_checked_price =
            IF PriorRows = {} THEN None
            ELSE Some(flight_prices[Max(PriorRows)].total_price)

(* C7: when a previous observation of the pair exists, the call returns    *)
(* the total_price of a previous observation as last_checked_price and     *)
(* last_checked_price - current_price as price_drop: positive for a        *)
(* decrease, negative for an increase, zero when unchanged; 520 then 505   *)
(* gives 520 and 15.                                                       *)
C7_PriceDrop ==
    (IsCompare /\ PriorRows # {}) =>
        LET last == result.last_checked_price
            drop == result.price_drop
            current == result.current_price
        IN /\ last # None
           /\ \E i \in PriorRows : flight_prices[i].total_price = last[1]
           /\ drop = Some(last[1] - current)
           /\ drop[1] > 0 <=> current < last[1]
           /\ drop[1] < 0 <=> current > last[1]
           /\ (last[1] = 520 /\ current = 505) => drop = Some(15)

\* 520 was recorded for a pair, then 505: the drop is 15
C7_Witness ==
    /\ IsCompare
    /\ Cardinality(PriorRows) = 1
    /\ result.last_checked_price = Some(520)
    /\ result.current_price = 505
    /\ result.price_drop = Some(15)

(* C8: the first call for a never-seen pair returns no last_checked_price  *)
(* and no price_drop, and is_new_best_today is true when its price is      *)
(* cheaper than every other observation of the call's day, in particular   *)
(* when there is none.                                                     *)
C8_FirstObservation ==
    (IsCompare /\ PriorRows = {}) =>
        /\ result.last_checked_price = None
        /\ result.price_drop = None
        /\ (\A i \in OtherRowsOfDay :
               result.current_price < flight_prices[i].total_price)
              => result.is_new_best_today

\* a never-seen pair came in cheaper than the other pair checked that day
C8_Witness ==
    /\ IsCompare
    /\ PriorRows = {}
    /\ OtherRowsOfDay # {}
    /\ \A i \in OtherRowsOfDay : result.current_price < flight_prices[i].total_price
    /\ result.is_new_best_today

(* C9: after a compare_and_update_best_price call the row of the call's    *)
(* day exists, and every daily-best row names an existing flight-price row *)
(* with its best_price, dates and airports; after two pairs checked on one *)
(* day, the second cheaper, the row holds the second one.                  *)
C9_BestRowMetadata ==
    /\ IsCompare => \E r \in daily_best_prices : r.date = call.checked_date
    /\ \A r \in daily_best_prices :
          /\ r.flight_record_id \in 1..Len(flight_prices)
          /\ LET row == flight_prices[r.flight_record_id]
             IN /\ row.total_price = r.best_price
                /\ row.departure_date = r.departure_date
                /\ row.return_date = r.return_date
                /\ row.inbound_airport = r.inbound_airport
                /\ row.outbound_airport = r.outbound_airport
    /\ (/\ Len(flight_prices) = 2
        /\ flight_prices[1].checked_date = flight_prices[2].checked_date
        /\ flight_prices[2].total_price < flight_prices[1].total_price)
          => \E r \in daily_best_prices :
                /\ r.date = flight_prices[2].checked_date
                /\ r.flight_record_id = 2
                /\ r.best_price = flight_prices[2].total_price

\* two pairs with different routes on one day, 520 then 505: the row is the second
C9_Witness ==
    /\ IsCompare
    /\ Len(flight_prices) = 2
    /\ flight_prices[1].checked_date = flight_prices[2].checked_date
    /\ flight_prices[1].departure_date # flight_prices[2].departure_date
    /\ flight_prices[1].inbound_airport # flight_prices[2].inbound_airport
    /\ flight_prices[1].total_price = 520
    /\ flight_prices[2].total_price = 505
    /\ \E r \in daily_best_prices :
          /\ r.flight_record_id = 2
          /\ r.best_price = 505
          /\ r.departure_date = flight_prices[2].departure_date
          /\ r.inbound_airport = flight_prices[2].inbound_airport

(* C10: get_last_checked_price returns the row inserted last among the     *)
(* rows of the pair, also when several carry the same checked_date and     *)
(* created_at, and none exactly when the pair has no row.                  *)
C10_LastIsLastInserted ==
    call.op = "get_last_checked_price" =>
        LET rows == ObservationsOf(call.departure_date, call.return_date)
        IN IF rows = {} THEN result = None
           ELSE result # None /\ result[1].id = Max(rows)

(* C5: should_send_alert returns false when there is no previous price,    *)
(* and otherwise true exactly when previous - current is strictly greater  *)
(* than the threshold: a drop of exactly the threshold does not alert and  *)
(* a price rise never alerts.                                              *)
C5_AlertBoundary ==
    result # None =>
        LET current == call.current_price
            previous == call.last_checked_price
            alert == result[1]
        IN /\ previous = None => alert = FALSE
           /\ previous # None =>
                 /\ alert = TRUE <=> previous[1] - current > call.threshold
                 /\ previous[1] - current = call.threshold => alert = FALSE
                 /\ current > previous[1] => alert = FALSE

\* a drop of exactly the default threshold was evaluated: 100 -> 90
C5_Witness ==
    /\ result # None
    /\ call.op = "should_send_alert"
    /\ call.threshold = DefaultThreshold
    /\ call.last_checked_price = Some(100)
    /\ call.current_price = 90
    /\ result[1] = FALSE

\* a compare_and_update_best_price call that returned its result
Completed == IsCompare /\ "record_id" \in DOMAIN result

\* a compare_and_update_best_price call during which the process died
Crashed == IsCompare /\ result = None

(* C11: when the process dies between the observation insert and the       *)
(* daily-best upsert of a compare_and_update_best_price call, the          *)
(* observation is stored and the daily-best table is as the last completed *)
(* upsert left it; and when the next call completes on that same day, the  *)
(* best_price of the day is the minimum total_price of the day's           *)
(* observations, the one of the interrupted call among them.               *)
C11_CrashThenRerun ==
    [][/\ (Crashed' /\ flight_prices' # flight_prices) =>
            /\ Len(flight_prices') = Len(flight_prices) + 1
            /\ flight_prices'[Len(flight_prices')].total_price = call'.current_price
            /\ daily_best_prices' = daily_best_prices
       /\ (Crashed /\ Completed' /\ call'.checked_date = call.checked_date) =>
            \E r \in daily_best_prices' :
                /\ r.date = call'.checked_date
                /\ r.best_price =
                      Min({ flight_prices'[i].total_price :
                              i \in { j \in 1..Len(flight_prices') :
                                        flight_prices'[j].checked_date = r.date } })]_vars

(* C15: a store operation that fails inside compare_and_update_best_price  *)
(* raises to the caller, and what it was doing is rolled back: a failed    *)
(* lookup or a failed observation insert leaves both tables as they were,  *)
(* a failed daily-best upsert leaves the daily-best table as it was and    *)
(* the observation the call had already inserted in place.                 *)
C15_StoreErrorsPropagate ==
    [][(IsCompare' /\ "failing" \in DOMAIN call') =>
          /\ "raised" \in DOMAIN result'
          /\ result'.operation = call'.failing
          /\ daily_best_prices' = daily_best_prices
          /\ \/ flight_prices' = flight_prices
             \/ /\ call'.failing = "update_daily_best_price"
                /\ Len(flight_prices') = Len(flight_prices) + 1
                /\ SubSeq(flight_prices', 1, Len(flight_prices)) = flight_prices
                /\ LET row == flight_prices'[Len(flight_prices')]
                   IN /\ row.departure_date = call'.departure_date
                      /\ row.return_date = call'.return_date
                      /\ row.total_price = call'.current_price]_vars

\* the upsert of a cheaper second observation failed: the observation is
\* stored, the day's row is still the first one
C15_Witness ==
    /\ IsCompare
    /\ "failing" \in DOMAIN call
    /\ call.failing = "update_daily_best_price"
    /\ "raised" \in DOMAIN result
    /\ Len(flight_prices) = 2
    /\ flight_prices[2].total_price = call.current_price
    /\ \E r \in daily_best_prices :
          /\ r.date = call.checked_date
          /\ r.flight_record_id = 1
          /\ r.best_price > call.current_price

\* a step that is one iteration of the loop of track_all_dates
IterationStep ==
    /\ sweep.status = "running"
    /\ sweep.current <= Len(Window)
    /\ sweep' # sweep

\* the result the last iteration appended
LastResult(sw) == sw.results[Len(sw.results)]

(* C12: when the search gives success false or no best option for a date   *)
(* pair, track_flight_prices records nothing: the two tables stay as they  *)
(* are, no alert is evaluated or sent, and the iteration ends with an      *)
(* unsuccessful result, not with an exception.                             *)
C12_NoFlightsNoRecord ==
    [][(/\ IterationStep
        /\ "raises" \notin DOMAIN sweep'.search[1]
        /\ ~ sweep'.search[1].success \/ sweep'.search[1].best_option = None) =>
          /\ UNCHANGED <<flight_prices, daily_best_prices, daily_seq, outbox>>
          /\ sweep'.status = "running"
          /\ sweep'.delivery = None
          /\ Len(sweep'.results) = Len(sweep.results) + 1
          /\ LastResult(sweep').success = FALSE
          /\ LastResult(sweep').departure_date = Window[sweep.current].departure_date
          /\ "should_alert" \notin DOMAIN LastResult(sweep')
          /\ "comparison" \notin DOMAIN LastResult(sweep')]_vars

\* on a store that holds an observation and a best price, the search came
\* back with no best option and the iteration ended unsuccessful
C12_Witness ==
    /\ sweep.status = "running"
    /\ sweep.search = Some([success |-> TRUE, best_option |-> None])
    /\ sweep.results # <<>>
    /\ LastResult(sweep).success = FALSE
    /\ flight_prices # <<>>
    /\ daily_best_prices # {}

(* C13: when the search raises for one date pair of a sweep, that          *)
(* iteration is skipped and track_all_dates goes on with the next date     *)
(* pair; the sweep does not end there.                                     *)
C13_SweepSurvivesSearchError ==
    [][(IterationStep /\ "raises" \in DOMAIN sweep'.search[1]) =>
          /\ sweep'.status = "running"
          /\ sweep'.current = sweep.current + 1]_vars

(* C14: a compare_and_update_best_price call, direct or from a             *)
(* track_flight_prices iteration, that is given a negative current price   *)
(* inserts no flight-price row and leaves the daily-best table as it is.   *)
C14_NegativePriceRejected ==
    [][(IsCompare' /\ call'.current_price < 0) =>
          UNCHANGED <<flight_prices, daily_best_prices>>]_vars

(* C16: when the alert e-mail of an iteration is refused or its sending    *)
(* raises, the observation and the daily-best row written in that          *)
(* iteration are in the store, track_flight_prices returns a successful    *)
(* result for the pair, and the loop goes on with the next date pair; no   *)
(* step removes or changes a stored observation.                           *)
C16_AlertFailureNonFatal ==
    [][/\ (IterationStep /\ sweep'.delivery \in {Some("refused"), Some("raises")}) =>
            /\ sweep'.status = "running"
            /\ sweep'.current = sweep.current + 1
            /\ Len(sweep'.results) = Len(sweep.results) + 1
            /\ LastResult(sweep').success = TRUE
            /\ LastResult(sweep').should_alert = TRUE
            /\ outbox' = outbox
            /\ Len(flight_prices') = Len(flight_prices) + 1
            /\ LET comparison == LastResult(sweep').comparison
                   row == flight_prices'[comparison.record_id]
               IN /\ comparison.record_id = Len(flight_prices')
                  /\ row.total_price = comparison.current_price
                  /\ row.departure_date = Window[sweep.current].departure_date
                  /\ row.return_date = Window[sweep.current].return_date
                  /\ \E r \in daily_best_prices' :
                        /\ r.date = call'.checked_date
                        /\ r.best_price <= comparison.current_price
       /\ \A i \in 1..Len(flight_prices) :
            /\ i <= Len(flight_prices')
            /\ flight_prices'[i] = flight_prices[i]]_vars

\* the alert of the first pair raised while being sent: its result is a
\* success, nothing was delivered, and the second pair is up next
C16_Witness ==
    /\ sweep.status = "running"
    /\ sweep.delivery = Some("raises")
    /\ sweep.current = 2
    /\ LastResult(sweep).success
    /\ LastResult(sweep).should_alert
    /\ LastResult(sweep).comparison.record_id = Len(flight_prices)
    /\ outbox = <<>>

(* C17: get_price_history(departure_date, return_date) returns every       *)
(* observation of that pair once and no other, most recent first: of two   *)
(* adjacent records the first has the greater or equal                     *)
(* (checked_date, created_at).                                             *)
C17_HistoryMostRecentFirst ==
    call.op = "get_price_history" =>
        /\ Len(result) = Cardinality(ObservationsOf(call.departure_date, call.return_date))
        /\ { result[i].id : i \in 1..Len(result) } =
              ObservationsOf(call.departure_date, call.return_date)
        /\ \A i \in 1..Len(result) :
              /\ result[i].total_price = flight_prices[result[i].id].total_price
              /\ result[i].checked_date = flight_prices[result[i].id].checked_date
              /\ result[i].created_at = flight_prices[result[i].id].created_at
        /\ \A i \in 1..(Len(result) - 1) :
              \/ result[i].checked_date > result[i + 1].checked_date
              \/ /\ result[i].checked_date = result[i + 1].checked_date
                 /\ result[i].created_at >= result[i + 1].created_at

\* a pair observed on two days: the later observation comes first
C17_Witness ==
    /\ call.op = "get_price_history"
    /\ Len(result) = 2
    /\ result[1].id = 2
    /\ result[2].id = 1
    /\ result[1].checked_date > result[2].checked_date

(* C18: save_flight_price does not fail when the pair already has an       *)
(* observation; the identifier it returns is the one of the row it         *)
(* inserted and is greater than every identifier handed out before; the    *)
(* record_id of a compare_and_update_best_price result is the identifier   *)
(* of the row that call inserted.                                          *)
C18_IdentifiersIncrease ==
    [][/\ (call'.op = "save_flight_price" /\ <<call, result, flight_prices>>' # <<call, result, flight_prices>>) =>
            /\ result' \in 1..Len(flight_prices')
            /\ result' > Len(flight_prices)
            /\ SubSeq(flight_prices', 1, Len(flight_prices)) = flight_prices
            /\ flight_prices'[result'].departure_date = call'.departure_date
            /\ flight_prices'[result'].return_date = call'.return_date
       /\ (Completed' /\ <<call, result, flight_prices>>' # <<call, result, flight_prices>>) =>
            /\ result'.record_id \in 1..Len(flight_prices')
            /\ result'.record_id > Len(flight_prices)
            /\ SubSeq(flight_prices', 1, Len(flight_prices)) = flight_prices
            /\ flight_prices'[result'.record_id].departure_date = call'.departure_date
            /\ flight_prices'[result'.record_id].return_date = call'.return_date
            /\ flight_prices'[result'.record_id].total_price = call'.current_price]_vars

\* a second observation of a pair was saved and got identifier 2
C18_Witness ==
    /\ call.op = "save_flight_price"
    /\ result = 2
    /\ Len(flight_prices) = 2
    /\ flight_prices[1].departure_date = call.departure_date
    /\ flight_prices[1].return_date = call.return_date
    /\ flight_prices[2].departure_date = call.departure_date
    /\ flight_prices[2].return_date = call.return_date

\* the day of a departure date is over or running at the instant now
NotInTheFuture(date, now) == date # None /\ date[1] <= now.date

(* C19: search_flights raises ValidationError, unwrapped, and issues no    *)
(* request to the provider when an airport code is invalid, when the       *)
(* departure date is not in the future, or when the passenger count is     *)
(* outside 1..9.                                                           *)
C19_InvalidInputRejected ==
    (/\ call.op = "search_flights"
     /\ result # None
     /\ \/ ~ ValidAirportCode(call.origin)
        \/ ~ ValidAirportCode(call.destination)
        \/ NotInTheFuture(call.departure_date, call.now)
        \/ call.adults \notin 1..9) =>
        /\ "raised" \in DOMAIN result[1]
        /\ result[1].raised = "ValidationError"
        /\ requests = 0

\* the arguments of a search_flights call pass for valid by the claim
ValidArguments ==
    /\ ValidAirportCode(call.origin)
    /\ ValidAirportCode(call.destination)
    /\ call.departure_date # None
    /\ ~ NotInTheFuture(call.departure_date, call.now)
    /\ call.adults \in 1..9

(* C20: when the provider answers a request with ResponseError,            *)
(* search_flights asks again while the retry decorator is active, at most  *)
(* 3 requests in all; when every request fails it raises APIError with the *)
(* provider's status code; it returns success only when a request          *)
(* succeeded.                                                              *)
C20_RetryThenApiError ==
    (/\ call.op = "search_flights"
     /\ result # None
     /\ ValidArguments
     /\ call.script[1] # Offered
     /\ call.script[1].error = "ResponseError") =>
        /\ requests <= StopAfterAttempt
        /\ call.retry_available => requests >= 2
        /\ ~ call.retry_available => requests = 1
        /\ (\A n \in 1..requests : ReplyAt(call.script, n) # Offered) =>
              /\ "raised" \in DOMAIN result[1]
              /\ result[1].raised = "APIError"
              /\ result[1].status_code = Some(ReplyAt(call.script, requests).status_code)
        /\ "success" \in DOMAIN result[1] =>
              ReplyAt(call.script, requests) = Offered

\* the daily-best rows of the day of the call just made, before that call
BestBefore == { r \in daily_best_prices : r.date = call'.checked_date }

(* C21: compare_and_update_best_price writes the daily-best row exactly     *)
(* when it returns is_new_best_today true, and that is exactly when the     *)
(* day had no row or the current price is strictly lower than the stored   *)
(* best_price; on an equal or higher price the daily-best table is left as *)
(* it was, so on a tie the earlier observation stays the day's best.       *)
C21_WritesExactlyOnNewBest ==
    [][(Completed' /\ flight_prices' # flight_prices) =>
          LET is_new_best == result'.is_new_best_today
          IN /\ is_new_best <=>
                   \/ BestBefore = {}
                   \/ \E r \in BestBefore : call'.current_price < r.best_price
             /\ is_new_best <=> daily_best_prices' # daily_best_prices
             /\ is_new_best =>
                   \E r \in daily_best_prices' :
                       /\ r.date = call'.checked_date
                       /\ r.best_price = call'.current_price
                       /\ r.flight_record_id = result'.record_id
                       /\ \A r2 \in daily_best_prices' \ {r} : r2 \in daily_best_prices
             /\ ~ is_new_best => UNCHANGED <<daily_best_prices, daily_seq>>]_vars

\* a second observation of the day came in at the price of the first: the
\* day's row still names the first
C21_Witness ==
    /\ Completed
    /\ ~ result.is_new_best_today
    /\ result.today_best_price = result.current_price
    /\ result.record_id = 2
    /\ \E r \in daily_best_prices :
          /\ r.date = call.checked_date
          /\ r.flight_record_id = 1
          /\ r.best_price = result.current_price

(* C22: the today_best_price a compare_and_update_best_price call returns   *)
(* is the best_price the day's row had before the call when there was a    *)
(* row, and the current price when there was none; it is never lower than  *)
(* the best_price stored for the day after the call, and strictly greater  *)
(* exactly when a row existed and is_new_best_today is true.               *)
C22_TodayBestIsTheOneBefore ==
    [][(Completed' /\ flight_prices' # flight_prices) =>
          /\ IF BestBefore = {}
             THEN result'.today_best_price = call'.current_price
             ELSE \E r \in BestBefore : result'.today_best_price = r.best_price
          /\ \E r \in daily_best_prices' :
                /\ r.date = call'.checked_date
                /\ result'.today_best_price >= r.best_price
                /\ result'.today_best_price > r.best_price <=>
                      (BestBefore # {} /\ result'.is_new_best_today)]_vars

\* the day's best was 520 and the call brought 505: it returns the 520 it
\* read, the row now says 505
C22_Witness ==
    /\ Completed
    /\ result.record_id = 2
    /\ result.is_new_best_today
    /\ result.today_best_price = 520
    /\ \E r \in daily_best_prices :
          /\ r.date = call.checked_date
          /\ r.best_price = 505
          /\ r.flight_record_id = 2

(* C26: the observation a daily-best row references through                *)
(* flight_record_id has the row's date as its checked_date, also when the  *)
(* calendar date changes while the compare_and_update_best_price call that *)
(* writes both is running.                                                 *)
C26_BestRowDateIsCheckedDate ==
    \A r \in daily_best_prices :
        /\ r.flight_record_id \in 1..Len(flight_prices)
        /\ flight_prices[r.flight_record_id].checked_date = r.date

(* C29: the email_sent flag of a track_flight_prices result is true only   *)
(* if an alert e-mail was delivered in that iteration: should_alert was    *)
(* true and send_price_drop_alert returned true without raising.           *)
C29_EmailSentMeansDelivered ==
    [][(/\ IterationStep
        /\ Len(sweep'.results) = Len(sweep.results) + 1
        /\ LastResult(sweep').success
        /\ LastResult(sweep').email_sent) =>
          /\ LastResult(sweep').should_alert
          /\ sweep'.delivery = Some("sent")
          /\ Len(outbox') = Len(outbox) + 1]_vars

\* the iterations of a sweep so far whose should_alert was true
AlertingIterations(sw) ==
    { i \in 1..Len(sw.results) : sw.results[i].success /\ sw.results[i].should_alert }

\* the summary of a sweep that returned is the one of what it did
SummaryConsistent(sw) ==
    /\ Len(sw.results) = Len(Window)
    /\ \A i \in 1..Len(Window) :
          /\ sw.results[i].departure_date = Window[i].departure_date
          /\ sw.results[i].return_date = Window[i].return_date
          /\ IF sw.results[i].success
             THEN sw.results[i].comparison.record_id \in 1..Len(flight_prices)
             ELSE sw.results[i].message = "No flights found"
    /\ sw.summary # None
    /\ sw.summary[1].results = sw.results
    /\ sw.summary[1].total_tracked = Len(Window)
    /\ sw.summary[1].alerts_count = Cardinality(AlertingIterations(sw))

(* C24: a track_all_dates call ends after it has visited every date pair   *)
(* of the window once, in ascending order, and by returning a summary that *)
(* is consistent with what happened: each per-date result says whether the *)
(* pair was recorded or skipped, total_tracked is the number of pairs      *)
(* visited and alerts_count the number of iterations whose should_alert    *)
(* was true.                                                               *)
C24_SweepVisitsWholeWindow ==
    sweep.status \in {"returned", "raised"} =>
        /\ sweep.status = "returned"
        /\ SummaryConsistent(sweep)

\* what holds of it: a sweep that returned has a consistent summary
ReturnedSweepIsConsistent == sweep.status = "returned" => SummaryConsistent(sweep)

\* a daily-best row is whole: it names an observation of the table fp and
\* carries that observation's price, dates and airports
CompleteRow(r, fp) ==
    /\ r.flight_record_id \in 1..Len(fp)
    /\ LET row == fp[r.flight_record_id]
       IN /\ r.best_price = row.total_price
          /\ r.departure_date = row.departure_date
          /\ r.return_date = row.return_date
          /\ r.inbound_airport = row.inbound_airport
          /\ r.outbound_airport = row.outbound_airport

(* C25: while compare_and_update_best_price calls run one store operation  *)
(* at a time, what a reader can read between any two operations is whole:  *)
(* an observation that is in the table never changes afterwards; the       *)
(* daily-best row of a date is absent, the row it was before the step or   *)
(* one new row written in one piece; and every daily-best row a lookup     *)
(* returns references an observation that is already stored and whose      *)
(* fields it carries.                                                      *)
C25_ReaderSeesCompleteRows ==
    [][/\ \A i \in 1..Len(flight_prices) :
            /\ i <= Len(flight_prices')
            /\ flight_prices'[i] = flight_prices[i]
       /\ \A r \in daily_best_prices' :
            /\ CompleteRow(r, flight_prices')
            /\ r \in daily_best_prices \/ r.id = daily_seq'
            /\ \A r2 \in daily_best_prices' : r2.date = r.date => r2 = r
       /\ (call'.op = "get_daily_best_price" /\ result' # None) =>
            CompleteRow(result'[1], flight_prices')]_vars

\* a lookup returned the day's row, written by one call, while the other
\* call had inserted its cheaper observation and not yet replaced the row
C25_Witness ==
    /\ call.op = "get_daily_best_price"
    /\ result # None
    /\ \E p \in Procs :
          /\ procs[p].pc = "update_daily_best_price"
          /\ procs[p].record_id # result[1].flight_record_id
          /\ procs[p].record_id <= Len(flight_prices)
          /\ procs[p].current_price < result[1].best_price
          /\ procs[p].today_best = result

(* C27: when the compare_and_update_best_price calls of two processes for  *)
(* one calendar day have both returned, however their store operations     *)
(* interleaved, the daily-best row of that day holds the minimum           *)
(* total_price of the observations the calls inserted.                     *)
C27_ConcurrentBestIsMinimum ==
    (clock.date = 0 /\ \A p \in Procs : procs[p].pc = "returned") =>
        \E r \in daily_best_prices :
            /\ r.date = 0
            /\ r.best_price =
                  Min({ flight_prices[i].total_price : i \in 1..Len(flight_prices) })

\* the entries of a log are in the order of one iteration after the other:
\* a search opens the iteration of the next date pair, the write follows
\* its search, an alert follows its write and only on should_alert, and
\* the call returns before the next search
OneAfterAnother(lg) ==
    \A n \in 1..Len(lg) :
        LET e == lg[n]
        IN /\ e.ev = "search" =>
                IF n = 1 THEN e.pair = 1
                ELSE lg[n - 1].ev = "return" /\ e.pair = lg[n - 1].pair + 1
           /\ e.ev = "write" =>
                n > 1 /\ lg[n - 1].ev = "search" /\ lg[n - 1].pair = e.pair
           /\ e.ev = "alert" =>
                /\ n > 1 /\ lg[n - 1].ev = "write" /\ lg[n - 1].pair = e.pair
                /\ lg[n - 1].record_id = e.record_id
                /\ e.should_alert
           /\ e.ev = "return" =>
                /\ n > 1 /\ lg[n - 1].ev \in {"search", "write", "alert"}
                /\ lg[n - 1].pair = e.pair
           /\ e.ev = "report" => n > 1 /\ lg[n - 1].ev = "return"

(* C23: in a sweep the date pairs are processed one after another: in an   *)
(* iteration the provider is searched first, the comparator writes to the  *)
(* store next, then send_price_drop_alert is called at most once and only  *)
(* when should_send_alert returned true for this iteration, and the search *)
(* of the next date pair comes after the iteration has returned; the store *)
(* changes in the comparator's step only and the outbox in the alert's.    *)
C23_OneIterationAtATime ==
    [][/\ OneAfterAnother(log')
       /\ <<flight_prices, daily_best_prices>>' # <<flight_prices, daily_best_prices>> =>
            /\ Len(log') = Len(log) + 1
            /\ log'[Len(log')].ev = "write"
            /\ log'[Len(log')].record_id = Len(flight_prices')
            /\ flight_prices'[Len(flight_prices')].departure_date =
                  Window[log'[Len(log')].pair].departure_date
       /\ outbox' # outbox =>
            /\ Len(log') = Len(log) + 2
            /\ log'[Len(log) + 1].ev = "alert"]_vars

\* the first pair was searched, recorded and alerted for before the
\* provider was asked about the second
C23_Witness ==
    /\ Len(log) >= 5
    /\ log[1].ev = "search" /\ log[1].pair = 1
    /\ log[2].ev = "write"
    /\ log[3].ev = "alert"
    /\ log[4].ev = "return"
    /\ log[5].ev = "search" /\ log[5].pair = 2

\* the observations of the pair of observation i that were stored before it
EarlierOfPair(i) ==
    { j \in 1..(i - 1) :
        /\ flight_prices[j].departure_date = flight_prices[i].departure_date
        /\ flight_prices[j].return_date = flight_prices[i].return_date }

\* the observation before i is the only one of the pair with its
\* timestamp: the lookup of the call that stored i had one possible answer
UniqueLast(i) ==
    \/ EarlierOfPair(i) = {}
    \/ \A j \in EarlierOfPair(i) \ {Max(EarlierOfPair(i))} :
          <<flight_prices[j].checked_date, flight_prices[j].created_at>> #
          <<flight_prices[Max(EarlierOfPair(i))].checked_date,
            flight_prices[Max(EarlierOfPair(i))].created_at>>

\* observation i is cheaper than the one before it by more than the threshold
DroppedBeyondThreshold(i) ==
    /\ EarlierOfPair(i) # {}
    /\ flight_prices[Max(EarlierOfPair(i))].total_price - flight_prices[i].total_price
          > DefaultThreshold

\* send_price_drop_alert was called for observation i
AlertCalledFor(i) ==
    \E m \in 1..Len(log) : log[m].ev = "alert" /\ log[m].record_id = i

\* the comparator calls that came after entry n of the log for the same
\* date pair and with the same price
RerunsOf(n) ==
    { m \in (n + 1)..Len(log) :
        /\ log[m].ev = "write"
        /\ log[m].pair = log[n].pair
        /\ flight_prices[log[m].record_id].total_price =
              flight_prices[log[n].record_id].total_price }

(* C28: with a notifier configured, once a run has gone through its whole  *)
(* sweep, every observation committed since the last fresh run that        *)
(* dropped by more than the threshold has had its send_price_drop_alert    *)
(* call; and when the run was killed between the comparator's write and    *)
(* the alert and the iteration was run again with the same offer, the call *)
(* was made then. Runs in which a lookup of the previous price met two     *)
(* observations with one timestamp are left aside.                         *)
C28_DropLeadsToAlert ==
    (/\ sweep.status \in {"returned", "done"}
     /\ sweep.email_notifier
     /\ \A n \in 1..Len(log) : log[n].ev = "write" => UniqueLast(log[n].record_id)) =>
        \A n \in 1..Len(log) :
            (log[n].ev = "write" /\ DroppedBeyondThreshold(log[n].record_id)) =>
                IF n < Len(log) /\ log[n + 1].ev = "interrupt"
                THEN RerunsOf(n) # {} =>
                        \/ AlertCalledFor(log[n].record_id)
                        \/ \E m \in RerunsOf(n) : AlertCalledFor(log[m].record_id)
                ELSE AlertCalledFor(log[n].record_id)

(* C30: when the e-mail notifier is configured, run_daily_tracking hands   *)
(* one daily report to the notifier after the sweep has returned, and the  *)
(* report's best price is the best_price of today's daily-best row as the  *)
(* sweep left it, 0 when there is no row.                                  *)
C30_OneDailyReport ==
    [][(sweep.status = "returned" /\ sweep'.status = "done" /\ sweep.email_notifier) =>
          /\ Len(log') = Len(log) + 1
          /\ log'[Len(log')].ev = "report"
          /\ \A n \in 1..Len(log) : log[n].ev # "report"
          /\ LET today == { r \in daily_best_prices : r.date = clock.date }
             IN IF today = {}
                THEN log'[Len(log')].best_price = 0
                ELSE \E r \in today : log'[Len(log')].best_price = r.best_price]_vars

====
